---- MODULE Spec2Model ----
(***************************************************************************)
(* The register file of Rellume (src/llregfile-internal.h): the Facet      *)
(* enumeration, the ValueMap slot container with its facet lookup table,   *)
(* and RegFile with its general purpose and SSE register maps, flags,      *)
(* instruction pointer and flag cache.                                     *)
(*                                                                         *)
(* The header declares RegFile::GetReg, SetReg, Rename, GetFlag and        *)
(* SetFlag without bodies; these are modelled from their documented        *)
(* behaviour and act on the ValueMap operations the header defines.        *)
(***************************************************************************)
EXTENDS Integers, Sequences, FiniteSets, TLC

(***************************************************************************)
(* Bounds of the model.                                                    *)
(***************************************************************************)
\* number of general purpose registers kept (LL_RI_GPMax of the decoder)
NumGp == 2
\* number of SSE registers kept (LL_RI_XMMMax of the decoder)
NumSse == 1
\* number of distinct backend values a caller passes in
MaxVal == 2
\* number of operations performed on one register file
MaxOps == 3
\* number of supported facets per class the callers pass as arguments
MaxArgFacets == 3
\* number of operations performed on a ValueMap used on its own
MaxMapOps == 2

(***************************************************************************)
(* enum Facet::Value, LL_VECTOR_REGISTER_SIZE == 128 (no I256).            *)
(***************************************************************************)
I64 == 0
I32 == 1
I16 == 2
I8 == 3
I8H == 4
PTR == 5
I128 == 6
V1I8 == 7
V2I8 == 8
V4I8 == 9
V8I8 == 10
V16I8 == 11
V1I16 == 12
V2I16 == 13
V4I16 == 14
V8I16 == 15
V1I32 == 16
V2I32 == 17
V4I32 == 18
V1I64 == 19
V2I64 == 20
V1F32 == 21
V2F32 == 22
V4F32 == 23
V1F64 == 24
V2F64 == 25
F32 == 26
F64 == 27
\* Pseudo-facets
I == 28
VI8 == 29
VI16 == 30
VI32 == 31
VI64 == 32
VF32 == 33
VF64 == 34
MAX == 35
IVEC == I128

\* every enumerator below MAX
Facets == 0 .. (MAX - 1)
PseudoFacets == {I, VI8, VI16, VI32, VI64, VF32, VF64}

\* enum RFLAG_*
RFLAG_ZF == 0
RFLAG_SF == 1
RFLAG_PF == 2
RFLAG_CF == 3
RFLAG_OF == 4
RFLAG_AF == 5
RFLAG_Max == 6

\* 0u - 1: the largest unsigned. It lies beyond every array of the program;
\* the largest integer TLC represents stands for it
UINT_MAX == 2147483647

(***************************************************************************)
(* llvm::Value* : a backend value is identified by the value a caller      *)
(* created (id) and the conversions the backend applied to it (path).      *)
(* Null is nullptr; Uninit is the indeterminate content of storage no      *)
(* constructor wrote; Junk is a non-null pointer read out of such storage. *)
(***************************************************************************)
Null == [id |-> 0, path |-> << >>]
Uninit == [id |-> -1, path |-> << >>]
Junk == [id |-> -2, path |-> << >>]
Val(n) == [id |-> n, path |-> << >>]
Values == {Val(n) : n \in 1 .. MaxVal}

(***************************************************************************)
(* ValueMap<E...>::LookupTable: f lists the facets, b maps a facet to one  *)
(* plus its position in f, 0 for a facet that is not in the list.          *)
(***************************************************************************)
\* LookupTable that stores the position itself (b[elem] = i++)
RECURSIVE LookupFill_nobase(_, _, _)
LookupFill_nobase(il, i, t) ==
    IF i = Len(il) THEN t
    ELSE LET elem == il[i + 1]
         IN  LookupFill_nobase(il, i + 1,
                               [f |-> [t.f EXCEPT ![i] = elem],
                                b |-> [t.b EXCEPT ![elem] = i]])

\* LookupTable with the position never advanced (b[elem] = 1 + i, no i++)
RECURSIVE LookupFill_noinc(_, _, _)
LookupFill_noinc(il, i, t) ==
    IF i = Len(il) THEN t
    ELSE LET elem == il[i + 1]
         IN  LookupFill_noinc(il, i + 1,
                              [f |-> [t.f EXCEPT ![0] = elem],
                               b |-> [t.b EXCEPT ![elem] = 1]])

RECURSIVE LookupFill(_, _, _)
LookupFill(il, i, t) ==
    IF i = Len(il) THEN t
    ELSE LET elem == il[i + 1]
         IN  LookupFill(il, i + 1,
                        [f |-> [t.f EXCEPT ![i] = elem],
                         b |-> [t.b EXCEPT ![elem] = 1 + i]])

LookupTable(il, N, M) ==
    LookupFill(il, 0, [f |-> [k \in 0 .. (N - 1) |-> 0],
                       b |-> [k \in 0 .. (M - 1) |-> 0]])

\* typedef ValueMapGp
GpList == << I64, I32, I16, I8, I8H, PTR >>
\* typedef ValueMapSse
SseList == << I128,
              I8, V1I8, V2I8, V4I8, V8I8, V16I8,
              I16, V1I16, V2I16, V4I16, V8I16,
              I32, V1I32, V2I32, V4I32,
              I64, V1I64, V2I64,
              F32, V1F32, V2F32, V4F32,
              F64, V1F64, V2F64 >>

table_gp == LookupTable(GpList, Len(GpList), MAX)
table_sse == LookupTable(SseList, Len(SseList), MAX)

Classes == {"gp", "sse"}
table(rt) == IF rt = "gp" THEN table_gp ELSE table_sse
\* sizeof...(E)
Size(rt) == IF rt = "gp" THEN Len(GpList) ELSE Len(SseList)

(***************************************************************************)
(* ValueMap::at.  The assertion is compiled out when NDEBUG is defined;    *)
(* the index is computed in unsigned arithmetic.                           *)
(***************************************************************************)
at_assert(rt, v) == table(rt).b[v] > 0
\* the index without the - 1
at_index_nooff(rt, v) == table(rt).b[v]
at_index(rt, v) ==
    IF table(rt).b[v] >= 1 THEN table(rt).b[v] - 1 ELSE UINT_MAX
\* the index addresses an element of values[sizeof...(E)]
InBounds(rt, idx) == idx < Size(rt)

\* ValueMap::facets
facets(rt) == table(rt).f
\* the facets of a class, as a set
SupportedGp == {table_gp.f[k] : k \in 0 .. (Len(GpList) - 1)}
SupportedSse == {table_sse.f[k] : k \in 0 .. (Len(SseList) - 1)}
Supported(rt) == IF rt = "gp" THEN SupportedGp ELSE SupportedSse

\* what a call of at(v) can do: return a reference, fail the assertion, or,
\* without the assertion, index values[] out of bounds (undefined behaviour:
\* the access faults or yields a reference to storage outside the map)
at_outcomes(rt, v, nd) ==
    IF at_assert(rt, v) THEN {"ref"}
    ELSE IF ~nd THEN {"abort"}
    ELSE {"segv", "ref"}

\* clear that fills the first element alone
clear_one(rt, values) ==
    [k \in DOMAIN values |-> IF k < 1 THEN Null ELSE values[k]]

\* clear that fills one element less than the array holds
clear_short(rt, values) ==
    [k \in DOMAIN values |-> IF k < Size(rt) - 1 THEN Null ELSE values[k]]

\* ValueMap::clear: std::fill_n(values, sizeof...(E), nullptr)
clear(rt, values) ==
    [k \in DOMAIN values |-> IF k < Size(rt) THEN Null ELSE values[k]]

\* the values array of a map no constructor initialised
Fresh(rt) == [k \in 0 .. (Size(rt) - 1) |-> Uninit]

\* a read of the first slot whatever the facet
Load_first(rt, values, v) == values[0]

\* read through the reference at(v) returned; storage outside the map holds
\* indeterminate content
Load(rt, values, v) ==
    IF InBounds(rt, at_index(rt, v)) THEN values[at_index(rt, v)] ELSE Uninit

\* write through the reference at(v) returned; a write outside the map
\* leaves the map as it is
Store(rt, values, v, x) ==
    IF InBounds(rt, at_index(rt, v))
    THEN [values EXCEPT ![at_index(rt, v)] = x]
    ELSE values
\* the write lands outside the map
StoreIsWild(rt, v) == ~InBounds(rt, at_index(rt, v))

\* the pointer values a read of x can yield
Observe(x) == IF x = Uninit THEN {Null, Junk} ELSE {x}

(***************************************************************************)
(* The backend and the facet taxonomy GetReg relies on.                    *)
(***************************************************************************)
\* the backend's conversion of value x from facet from to facet to
Convert(x, from, to) == [id |-> x.id, path |-> Append(x.path, << from, to >>)]

\* value kind of a storage facet
KindOf(f) ==
    IF f \in {I64, I32, I16, I8, I8H, PTR, I128} THEN "int"
    ELSE IF f \in {F32, F64} THEN "float"
    ELSE "vec"

\* width in bits of a storage facet
WidthOf(f) ==
    CASE f \in {I8, I8H, V1I8} -> 8
      [] f \in {I16, V2I8, V1I16} -> 16
      [] f \in {I32, V4I8, V2I16, V1I32, V1F32, F32} -> 32
      [] f \in {I64, PTR, V8I8, V4I16, V2I32, V1I64, V2F32, V1F64, F64} -> 64
      [] OTHER -> 128

\* the vector facet of n lanes of w bit integers / floats, MAX if the
\* enumeration has none
VecInt(w, n) ==
    CASE w = 8 /\ n \in {1, 2, 4, 8, 16} ->
             (CASE n = 1 -> V1I8 [] n = 2 -> V2I8 [] n = 4 -> V4I8
                [] n = 8 -> V8I8 [] OTHER -> V16I8)
      [] w = 16 /\ n \in {1, 2, 4, 8} ->
             (CASE n = 1 -> V1I16 [] n = 2 -> V2I16 [] n = 4 -> V4I16
                [] OTHER -> V8I16)
      [] w = 32 /\ n \in {1, 2, 4} ->
             (CASE n = 1 -> V1I32 [] n = 2 -> V2I32 [] OTHER -> V4I32)
      [] w = 64 /\ n \in {1, 2} ->
             (CASE n = 1 -> V1I64 [] OTHER -> V2I64)
      [] OTHER -> MAX
VecFloat(w, n) ==
    CASE w = 32 /\ n \in {1, 2, 4} ->
             (CASE n = 1 -> V1F32 [] n = 2 -> V2F32 [] OTHER -> V4F32)
      [] w = 64 /\ n \in {1, 2} ->
             (CASE n = 1 -> V1F64 [] OTHER -> V2F64)
      [] OTHER -> MAX

\* Resolve that takes the high byte for a width of 8
Resolve_high(f, bits) ==
    IF f = I /\ bits = 8 THEN I8H
    ELSE IF f = I
    THEN (CASE bits = 16 -> I16 [] bits = 32 -> I32 [] bits = 64 -> I64
            [] bits = 128 -> I128 [] OTHER -> MAX)
    ELSE f

\* Facet::Resolve(bits) called on facet f: a pseudo-facet resolves to the
\* storage facet of its kind that is bits wide (MAX: there is none), a
\* storage facet to itself
Resolve(f, bits) ==
    CASE f = I ->
             (CASE bits = 8 -> I8 [] bits = 16 -> I16 [] bits = 32 -> I32
                [] bits = 64 -> I64 [] bits = 128 -> I128 [] OTHER -> MAX)
      [] f = VI8 -> VecInt(8, bits \div 8)
      [] f = VI16 -> VecInt(16, bits \div 16)
      [] f = VI32 -> VecInt(32, bits \div 32)
      [] f = VI64 -> VecInt(64, bits \div 64)
      [] f = VF32 -> VecFloat(32, bits \div 32)
      [] f = VF64 -> VecFloat(64, bits \div 64)
      [] OTHER -> f

\* position of a supported facet in facets()
PosOf(rt, f) == table(rt).b[f] - 1

\* the first populated facet of facets(), whatever its kind and width
SelectSource_first(rt, P, facet) ==
    CHOOSE g \in P : \A h \in P \ {g} : PosOf(rt, g) < PosOf(rt, h)

\* the populated facet a missing facet is synthesized from: the widest one of
\* the kind of the request, or the widest one of any kind when there is none;
\* among equally wide facets the first of facets()
SelectSource(rt, P, facet) ==
    LET same == {g \in P : KindOf(g) = KindOf(facet)}
        cand == IF same # {} THEN same ELSE P
    IN  CHOOSE g \in cand :
            \A h \in cand \ {g} :
                \/ WidthOf(g) > WidthOf(h)
                \/ WidthOf(g) = WidthOf(h) /\ PosOf(rt, g) < PosOf(rt, h)

\* facets of a map whose slot holds a value / holds indeterminate content
Populated(rt, values) ==
    {g \in Supported(rt) : Load(rt, values, g) \notin {Null, Uninit}}
Indeterminate(rt, values) ==
    {g \in Supported(rt) : Load(rt, values, g) = Uninit}

(***************************************************************************)
(* State.                                                                  *)
(***************************************************************************)
VARIABLES
    regs_gp,      \* ValueMapGp regs_gp[LL_RI_GPMax]: register -> values[]
    regs_sse,     \* ValueMapSse regs_sse[LL_RI_XMMMax]
    reg_ip,       \* llvm::Value* reg_ip
    flags,        \* llvm::Value* flags[RFLAG_Max]
    flag_cache,   \* FlagCache flag_cache: valid, lhs, rhs
    map_gp,       \* a ValueMapGp used on its own
    map_sse,      \* a ValueMapSse used on its own
    ndebug,       \* the build defines NDEBUG
    wild,         \* storage outside the maps has been written
    calls         \* the calls made so far: arguments, result and outcome

vars == << regs_gp, regs_sse, reg_ip, flags, flag_cache, map_gp, map_sse,
           ndebug, wild, calls >>

RegIdx(rt) == IF rt = "gp" THEN 0 .. (NumGp - 1) ELSE 0 .. (NumSse - 1)
Regs(rt) == IF rt = "gp" THEN regs_gp ELSE regs_sse
Map(rt) == IF rt = "gp" THEN map_gp ELSE map_sse

\* the record of a call
Call(op, rt, ri, facet, val, clr, src, res, status, conv) ==
    [op |-> op, rt |-> rt, ri |-> ri, facet |-> facet, val |-> val,
     clear |-> clr, src |-> src, res |-> res, status |-> status,
     conv |-> conv]

\* the last call and the number of calls made
ret == calls[Len(calls)]
nops == Len(calls) - 1
Return(c) == calls' = Append(calls, c)

\* the process has not been terminated
Running == ret.status \notin {"abort", "segv"}
CanCall == Running /\ nops < MaxOps
CanCallMap == Running /\ nops < MaxMapOps

\* RegFile::RegFile initialises llvm_block and flag_cache (valid = false);
\* the register maps, reg_ip, flags and the operands of the cache are left
\* as the storage was
Init ==
    /\ regs_gp = [r \in RegIdx("gp") |-> Fresh("gp")]
    /\ regs_sse = [r \in RegIdx("sse") |-> Fresh("sse")]
    /\ reg_ip = Uninit
    /\ flags = [f \in 0 .. (RFLAG_Max - 1) |-> Uninit]
    /\ flag_cache = [valid |-> FALSE, lhs |-> Uninit, rhs |-> Uninit]
    /\ map_gp = Fresh("gp")
    /\ map_sse = Fresh("sse")
    /\ ndebug \in BOOLEAN
    /\ wild = FALSE
    /\ calls = << Call("init", "none", -1, -1, Null, FALSE, -1, Null, "ok",
                       << >>) >>

(***************************************************************************)
(* Arguments the callers pass.                                             *)
(***************************************************************************)
Min(a, b) == IF a < b THEN a ELSE b
FacetList(rt) == IF rt = "gp" THEN GpList ELSE SseList
\* a facet outside the class: a pseudo-facet
BadArgs(rt) == IF rt = "gp" THEN {I} ELSE {VF32}
\* the facets passed: the leading facets of the class and its last facet
ArgFacets(rt) ==
    {FacetList(rt)[k] :
        k \in 1 .. Min(MaxArgFacets - 1, Len(FacetList(rt)))}
        \cup {FacetList(rt)[Len(FacetList(rt))]}
        \cup BadArgs(rt)

(***************************************************************************)
(* RegFile::SetReg, RegFile::GetReg, RegFile::Rename.                      *)
(***************************************************************************)
SetRegs(rt, new) ==
    IF rt = "gp" THEN regs_gp' = new /\ UNCHANGED regs_sse
    ELSE regs_sse' = new /\ UNCHANGED regs_gp

\* a write that reaches every register of the array
PutReg_all(regs, ri, entry) == [r \in DOMAIN regs |-> entry]

\* registers that share the map they hold: a write to one shows in the other
PutReg_alias(regs, ri, entry) ==
    [r \in DOMAIN regs |-> IF regs[r] = regs[ri] THEN entry ELSE regs[r]]

\* regs[ri] = entry: the registers are an array of maps held by value
PutReg(regs, ri, entry) == [regs EXCEPT ![ri] = entry]

\* a copy that stops one slot short of the end
CopyMap_short(rt, values) ==
    [k \in 0 .. (Size(rt) - 1) |->
        IF k < Size(rt) - 1 THEN values[k] ELSE Null]

\* a copy that takes the first slot alone
CopyMap_first(rt, values) ==
    [k \in 0 .. (Size(rt) - 1) |-> IF k = 0 THEN values[k] ELSE Null]

\* the copy of a map: ValueMap's implicit copy assignment copies values[]
CopyMap(rt, values) == [k \in 0 .. (Size(rt) - 1) |-> values[k]]

\* the map of a register after SetReg stored value under facet
SetRegEntry(rt, entry, facet, value, clear_facets) ==
    Store(rt, IF clear_facets THEN clear(rt, entry) ELSE entry, facet, value)

SetReg(rt, ri, facet, value, clear_facets) ==
    /\ CanCall
    /\ \E o \in at_outcomes(rt, facet, ndebug) :
        IF o = "ref"
        THEN /\ SetRegs(rt, PutReg(Regs(rt), ri,
                      SetRegEntry(rt, Regs(rt)[ri], facet, value,
                                  clear_facets)))
             /\ wild' = (wild \/ StoreIsWild(rt, facet))
             /\ Return(Call("SetReg", rt, ri, facet, value, clear_facets, -1,
                            Null, "ok", << >>))
        ELSE /\ UNCHANGED << regs_gp, regs_sse, wild >>
             /\ Return(Call("SetReg", rt, ri, facet, value, clear_facets, -1,
                            Null, o, << >>))
    /\ UNCHANGED << reg_ip, flags, flag_cache, map_gp, map_sse, ndebug >>

\* the sets of facets GetReg can find populated when it looks for a source:
\* a slot of indeterminate content may read as null or as a pointer, so the
\* source is chosen among the populated facets alone or together with any one
\* indeterminate facet (a larger set of them selects no other source)
SourceSets(rt, entry, facet) ==
    LET pop == Populated(rt, entry)
    IN  {pop} \cup {pop \cup {u} : u \in Indeterminate(rt, entry) \ {facet}}

\* a failed conversion that terminates the translation
ConvertFailure_fatal(ub) == IF ub THEN "segv" ELSE "abort"

\* how GetReg ends when the backend has no conversion for the request: an
\* error reported to the caller (a fault, if the source was a pointer read
\* out of indeterminate storage)
ConvertFailure(ub) == IF ub THEN "segv" ELSE "error"

GetReg(rt, ri, facet) ==
    /\ CanCall
    /\ UNCHANGED << reg_ip, flags, flag_cache, map_gp, map_sse, ndebug >>
    /\ LET entry == Regs(rt)[ri]
           R(src, res, status, conv) ==
               Call("GetReg", rt, ri, facet, Null, FALSE, src, res, status,
                    conv)
       IN  \E o \in at_outcomes(rt, facet, ndebug) :
           IF o # "ref"
           THEN /\ Return(R(-1, Null, o, << >>))
                /\ UNCHANGED << regs_gp, regs_sse, wild >>
           ELSE \E cur \in Observe(Load(rt, entry, facet)) :
                IF cur # Null
                THEN \* the slot is populated: returned as it is
                     /\ Return(R(-1, cur, "ok", << >>))
                     /\ UNCHANGED << regs_gp, regs_sse, wild >>
                ELSE \E P \in SourceSets(rt, entry, facet) :
                     IF P = {}
                     THEN \* no facet of the register holds a value: fatal
                          /\ Return(R(-1, Null, "abort", << >>))
                          /\ UNCHANGED << regs_gp, regs_sse, wild >>
                     ELSE LET src == SelectSource(rt, P, facet)
                              sv == Load(rt, entry, src)
                              \* converting a pointer read out of
                              \* indeterminate storage is undefined: the
                              \* backend faults or yields some pointer
                              \* (which facet it was read from is then
                              \* not recorded)
                              ub == sv = Uninit
                              res == IF ub THEN Junk
                                     ELSE Convert(sv, src, facet)
                              req == IF ub THEN << >>
                                     ELSE << << src, facet >> >>
                          IN  \E converted \in BOOLEAN :
                              IF converted
                              THEN /\ SetRegs(rt, PutReg(Regs(rt), ri,
                                            Store(rt, entry, facet, res)))
                                   /\ wild' = (wild \/ StoreIsWild(rt, facet))
                                   /\ Return(R(IF ub THEN -1 ELSE src, res,
                                               "ok", req))
                              ELSE \* the backend has no such conversion
                                   /\ Return(R(IF ub THEN -1 ELSE src, Null,
                                               ConvertFailure(ub), req))
                                   /\ UNCHANGED << regs_gp, regs_sse, wild >>

Rename(rt, reg_dst, reg_src) ==
    /\ CanCall
    /\ SetRegs(rt, PutReg(Regs(rt), reg_dst,
                       CopyMap(rt, Regs(rt)[reg_src])))
    /\ Return(Call("Rename", rt, reg_dst, -1, Null, FALSE, reg_src, Null,
                   "ok", << >>))
    /\ UNCHANGED << reg_ip, flags, flag_cache, map_gp, map_sse, ndebug, wild >>

(***************************************************************************)
(* RegFile::FlagCache::update through GetFlagCache(), GetFlag, SetFlag.    *)
(***************************************************************************)
\* update that records op1 twice
FlagCacheUpdate_twice(fc, op1, op2) ==
    [[[fc EXCEPT !.lhs = op1] EXCEPT !.rhs = op1] EXCEPT !.valid = TRUE]

\* lhs = op1; rhs = op2; valid = true;
FlagCacheUpdate(fc, op1, op2) ==
    [[[fc EXCEPT !.lhs = op1] EXCEPT !.rhs = op2] EXCEPT !.valid = TRUE]

\* GetFlagCache().update(op1, op2); the record of the call keeps op1 as val
\* and op2 as res
update(op1, op2) ==
    /\ CanCall
    /\ flag_cache' = FlagCacheUpdate(flag_cache, op1, op2)
    /\ Return(Call("update", "none", -1, -1, op1, FALSE, -1, op2, "ok", << >>))
    /\ UNCHANGED << regs_gp, regs_sse, reg_ip, flags, map_gp, map_sse,
                    ndebug, wild >>

(***************************************************************************)
(* RegFile::GetFlag, RegFile::SetFlag: accessors of flags[].               *)
(***************************************************************************)
GetFlag(flag) ==
    /\ CanCall
    /\ Return(Call("GetFlag", "none", flag, -1, Null, FALSE, -1, flags[flag],
                   "ok", << >>))
    /\ UNCHANGED << regs_gp, regs_sse, reg_ip, flags, flag_cache, map_gp,
                    map_sse, ndebug, wild >>

\* a store that lands in the slot after the one named
PutFlag_next(fl, flag, value) ==
    [fl EXCEPT ![(flag + 1) % RFLAG_Max] = value]

\* flags[flag] = value: an array of RFLAG_Max slots, one per flag
PutFlag(fl, flag, value) == [fl EXCEPT ![flag] = value]

SetFlag(flag, value) ==
    /\ CanCall
    /\ flags' = PutFlag(flags, flag, value)
    /\ Return(Call("SetFlag", "none", flag, -1, value, FALSE, -1, Null, "ok",
                   << >>))
    /\ UNCHANGED << regs_gp, regs_sse, reg_ip, flag_cache, map_gp, map_sse,
                    ndebug, wild >>

(***************************************************************************)
(* The accessors of reg_ip.  The slot holds one pointer: it is read and    *)
(* written as it is.                                                       *)
(***************************************************************************)
GetInstructionPointer ==
    /\ CanCall
    /\ \E x \in Observe(reg_ip) :
           Return(Call("GetInstructionPointer", "none", -1, -1, Null, FALSE,
                       -1, x, "ok", << >>))
    /\ UNCHANGED << regs_gp, regs_sse, reg_ip, flags, flag_cache, map_gp,
                    map_sse, ndebug, wild >>

\* a store of the value converted to a pointer
SetInstructionPointer_conv(value) ==
    /\ CanCall
    /\ reg_ip' = Convert(value, I64, PTR)
    /\ Return(Call("SetInstructionPointer", "none", -1, -1, value, FALSE, -1,
                   Null, "ok", << >>))
    /\ UNCHANGED << regs_gp, regs_sse, flags, flag_cache, map_gp, map_sse,
                    ndebug, wild >>

SetInstructionPointer(value) ==
    /\ CanCall
    /\ reg_ip' = value
    /\ Return(Call("SetInstructionPointer", "none", -1, -1, value, FALSE, -1,
                   Null, "ok", << >>))
    /\ UNCHANGED << regs_gp, regs_sse, flags, flag_cache, map_gp, map_sse,
                    ndebug, wild >>

(***************************************************************************)
(* A ValueMap used on its own: x = m.at(v), m.at(v) = x, m.clear().        *)
(***************************************************************************)
SetMap(rt, new) ==
    IF rt = "gp" THEN map_gp' = new /\ UNCHANGED map_sse
    ELSE map_sse' = new /\ UNCHANGED map_gp

MapLoad(rt, v) ==
    /\ CanCallMap
    /\ \E o \in at_outcomes(rt, v, ndebug) :
        IF o = "ref"
        THEN \E x \in Observe(Load(rt, Map(rt), v)) :
                 Return(Call("MapLoad", rt, -1, v, Null, FALSE, -1, x, "ok",
                             << >>))
        ELSE Return(Call("MapLoad", rt, -1, v, Null, FALSE, -1, Null, o,
                         << >>))
    /\ UNCHANGED << regs_gp, regs_sse, reg_ip, flags, flag_cache, map_gp,
                    map_sse, ndebug, wild >>

MapStore(rt, v, x) ==
    /\ CanCallMap
    /\ \E o \in at_outcomes(rt, v, ndebug) :
        IF o = "ref"
        THEN /\ SetMap(rt, Store(rt, Map(rt), v, x))
             /\ wild' = (wild \/ StoreIsWild(rt, v))
             /\ Return(Call("MapStore", rt, -1, v, x, FALSE, -1, Null, "ok",
                            << >>))
        ELSE /\ UNCHANGED << map_gp, map_sse, wild >>
             /\ Return(Call("MapStore", rt, -1, v, x, FALSE, -1, Null, o,
                            << >>))
    /\ UNCHANGED << regs_gp, regs_sse, reg_ip, flags, flag_cache, ndebug >>

MapClear(rt) ==
    /\ CanCallMap
    /\ SetMap(rt, clear(rt, Map(rt)))
    /\ Return(Call("MapClear", rt, -1, -1, Null, FALSE, -1, Null, "ok", << >>))
    /\ UNCHANGED << regs_gp, regs_sse, reg_ip, flags, flag_cache, ndebug,
                    wild >>

(***************************************************************************)
(* Facet::Resolve called on a facet with a width.                          *)
(***************************************************************************)
\* the widths the callers resolve
Widths == {8, 16, 32, 64, 128}

CallResolve(f, bits) ==
    /\ CanCallMap
    /\ Return([op |-> "Resolve", facet |-> f, bits |-> bits,
               res |-> Resolve(f, bits), status |-> "ok"])
    /\ UNCHANGED << regs_gp, regs_sse, reg_ip, flags, flag_cache, map_gp,
                    map_sse, ndebug, wild >>

(***************************************************************************)
(* Specifications.                                                         *)
(***************************************************************************)
\* no register of the class has been written
Untouched(rt) == Regs(rt) = [r \in RegIdx(rt) |-> Fresh(rt)]
Other(rt) == IF rt = "gp" THEN "sse" ELSE "gp"

\* the calls a translated block makes on the registers; one run works on
\* the registers of one class
Next ==
    \E rt \in Classes : \E ri \in RegIdx(rt) :
        /\ Untouched(Other(rt))
        /\ \/ \E facet \in ArgFacets(rt), value \in Values, c \in BOOLEAN :
                  SetReg(rt, ri, facet, value, c)
           \/ \E facet \in ArgFacets(rt) : GetReg(rt, ri, facet)
           \/ \E reg_src \in RegIdx(rt) : Rename(rt, ri, reg_src)

Spec == Init /\ [][Next]_vars

\* the calls on the flags, the flag cache and the instruction pointer
NextFlag ==
    \/ \E op1 \in Values, op2 \in Values : update(op1, op2)
    \/ \E flag \in 0 .. (RFLAG_Max - 1) : GetFlag(flag)
    \/ \E flag \in 0 .. (RFLAG_Max - 1), value \in Values :
           SetFlag(flag, value)
    \/ GetInstructionPointer
    \/ \E value \in Values : SetInstructionPointer(value)

SpecFlag == Init /\ [][NextFlag]_vars

\* the calls on a ValueMap used on its own, with every facet below MAX; one
\* run works on the map of one class
NextMap ==
    \E rt \in Classes :
        /\ Map(Other(rt)) = Fresh(Other(rt))
        /\ \/ \E v \in Facets : MapLoad(rt, v)
           \/ \E v \in Facets, x \in Values : MapStore(rt, v, x)
           \/ MapClear(rt)

SpecMap == Init /\ [][NextMap]_vars

\* the resolutions of widths
NextResolve == \E f \in Facets, bits \in Widths : CallResolve(f, bits)

SpecResolve == Init /\ [][NextResolve]_vars

(***************************************************************************)
(* Properties.                                                             *)
(***************************************************************************)
\* the slot of facet f of register ri, now and after the step
Slot(rt, ri, f) == Load(rt, Regs(rt)[ri], f)
SlotNext(rt, ri, f) == Load(rt, Regs(rt)'[ri], f)
\* the call before the last one
Prev == calls[Len(calls) - 1]
\* c is a call of op on a register that returned
Returned(c, op) == c.op = op /\ c.status = "ok"
\* c is a call on register ri of class rt
OnReg(c, rt, ri) == c.rt = rt /\ c.ri = ri
\* c and d name the same register
SameReg(c, d) == c.rt = d.rt /\ c.ri = d.ri
\* c is SetReg(R, F, V, clear) with F a facet of R's class, and it returned
IsSetReg(c, clr) ==
    Returned(c, "SetReg") /\ c.clear = clr /\ c.facet \in Supported(c.rt)

\* C1: after SetReg(R, F, V, true) slot F of R holds V and every other slot
\* of R is empty; the next GetReg(R, F) returns V, and the next GetReg(R, G)
\* for another facet G requests the conversion of V from F to G and returns
\* that, whatever G held before the write.
C1_SetRegClear ==
    /\ IsSetReg(ret, TRUE) =>
           \A g \in Supported(ret.rt) :
               Slot(ret.rt, ret.ri, g) =
                   IF g = ret.facet THEN ret.val ELSE Null
    /\ ( /\ Len(calls) >= 2
         /\ IsSetReg(Prev, TRUE)
         /\ ret.op = "GetReg"
         /\ SameReg(ret, Prev)
         /\ ret.facet \in Supported(ret.rt) ) =>
           IF ret.facet = Prev.facet
           THEN ret.status = "ok" /\ ret.res = Prev.val /\ ret.conv = << >>
           ELSE /\ ret.status \in {"ok", "error"}
                /\ ret.conv = << << Prev.facet, ret.facet >> >>
                /\ ret.status = "ok" =>
                       ret.res = Convert(Prev.val, Prev.facet, ret.facet)

\* a facet G of R is written, then another facet F of R is written with
\* clear_facets and a different value, then G is read and is the conversion
\* of the value written last
C1_Witness ==
    /\ Len(calls) = 4
    /\ Returned(calls[2], "SetReg")
    /\ IsSetReg(calls[3], TRUE)
    /\ Returned(calls[4], "GetReg")
    /\ SameReg(calls[2], calls[3]) /\ SameReg(calls[3], calls[4])
    /\ calls[2].facet = calls[4].facet
    /\ calls[2].facet # calls[3].facet
    /\ calls[2].val # calls[3].val
    /\ calls[4].res = Convert(calls[3].val, calls[3].facet, calls[4].facet)

\* C2: SetReg(R, F, V, false) changes slot F of R alone: every other slot of
\* R holds after the call what it held before, empty ones stay empty.
C2_SetRegKeep ==
    [][ \A rt \in Classes : \A ri \in RegIdx(rt) :
            (IsSetReg(ret', FALSE) /\ OnReg(ret', rt, ri)) =>
                \A g \in Supported(rt) :
                    SlotNext(rt, ri, g) =
                        IF g = ret'.facet THEN ret'.val
                        ELSE Slot(rt, ri, g) ]_vars

\* SetReg without clear_facets on a register one of whose other slots holds
\* a value and one of whose other slots is empty
C2_Witness ==
    /\ IsSetReg(ret, FALSE)
    /\ \E g \in Supported(ret.rt) \ {ret.facet} :
           Slot(ret.rt, ret.ri, g) \in Values /\ Slot(ret.rt, ret.ri, g) # ret.val
    /\ \E g \in Supported(ret.rt) \ {ret.facet} :
           Slot(ret.rt, ret.ri, g) = Null

\* what GetReg(R, f) can return for a register whose map is entry, no slot of
\* it indeterminate: the slot if it holds a value, else a conversion of a
\* populated facet
GetRegResults(rt, entry, f) ==
    IF Load(rt, entry, f) # Null THEN {Load(rt, entry, f)}
    ELSE {Convert(Load(rt, entry, g), g, f) : g \in Populated(rt, entry)}

\* C3: Rename(dst, src) gives every slot of dst the content of the slot of
\* src, and GetReg(dst, F) right after it returns what GetReg(src, F) returns
\* from the map src holds.
C3_RenameCopies ==
    [][ \A rt \in Classes : \A dst \in RegIdx(rt), src \in RegIdx(rt) :
            /\ ( /\ ret'.op = "Rename" /\ OnReg(ret', rt, dst)
                 /\ ret'.src = src ) =>
                   \A g \in Supported(rt) :
                       SlotNext(rt, dst, g) = Slot(rt, src, g)
            /\ ( /\ ret.op = "Rename" /\ OnReg(ret, rt, dst) /\ ret.src = src
                 /\ Returned(ret', "GetReg") /\ OnReg(ret', rt, dst)
                 /\ ret'.facet \in Supported(rt)
                 /\ Indeterminate(rt, Regs(rt)[src]) = {} ) =>
                   ret'.res \in
                       GetRegResults(rt, Regs(rt)[src], ret'.facet) ]_vars

\* src is written, renamed to another register dst, and a facet of dst that
\* src does not hold is read: the conversion of the value written to src
C3_Witness ==
    /\ Len(calls) = 4
    /\ IsSetReg(calls[2], TRUE)
    /\ calls[3].op = "Rename" /\ calls[3].rt = calls[2].rt
    /\ calls[3].src = calls[2].ri /\ calls[3].ri # calls[3].src
    /\ Returned(calls[4], "GetReg") /\ SameReg(calls[4], calls[3])
    /\ calls[4].facet # calls[2].facet
    /\ calls[4].res = Convert(calls[2].val, calls[2].facet, calls[4].facet)
    /\ Slot(calls[3].rt, calls[3].ri, calls[2].facet) = calls[2].val

\* C4: Rename(dst, src) leaves the map of src as it was, and no SetReg or
\* GetReg on dst after a Rename(dst, src) changes a slot of src.
C4_RenameNoAlias ==
    [][ \A rt \in Classes : \A dst \in RegIdx(rt), src \in RegIdx(rt) :
            dst # src =>
            /\ ( /\ ret'.op = "Rename" /\ OnReg(ret', rt, dst)
                 /\ ret'.src = src ) =>
                   Regs(rt)'[src] = Regs(rt)[src]
            /\ ( /\ \E i \in 1 .. Len(calls) :
                        /\ calls[i].op = "Rename" /\ OnReg(calls[i], rt, dst)
                        /\ calls[i].src = src
                 /\ ret'.op \in {"SetReg", "GetReg"}
                 /\ OnReg(ret', rt, dst) ) =>
                   Regs(rt)'[src] = Regs(rt)[src] ]_vars

\* src is written, renamed to dst, and dst is overwritten with clear_facets
\* by another value: src still holds the first value
C4_Witness ==
    /\ Len(calls) = 4
    /\ IsSetReg(calls[2], TRUE)
    /\ calls[3].op = "Rename" /\ calls[3].rt = calls[2].rt
    /\ calls[3].src = calls[2].ri /\ calls[3].ri # calls[3].src
    /\ IsSetReg(calls[4], TRUE) /\ SameReg(calls[4], calls[3])
    /\ calls[4].facet = calls[2].facet /\ calls[4].val # calls[2].val
    /\ Slot(calls[2].rt, calls[2].ri, calls[2].facet) = calls[2].val
    /\ Slot(calls[4].rt, calls[4].ri, calls[4].facet) = calls[4].val

\* C5: GetReg(R, F) on a slot that holds a value returns that value, requests
\* no conversion and changes nothing; right after SetReg(R, F, V, c) it
\* returns V.
C5_GetRegPopulated ==
    [][ \A rt \in Classes : \A ri \in RegIdx(rt) : \A f \in Supported(rt) :
            ( /\ ret'.op = "GetReg" /\ OnReg(ret', rt, ri)
              /\ ret'.facet = f ) =>
            /\ Slot(rt, ri, f) \notin {Null, Uninit} =>
                   /\ ret'.status = "ok"
                   /\ ret'.res = Slot(rt, ri, f)
                   /\ ret'.conv = << >>
                   /\ UNCHANGED << regs_gp, regs_sse, reg_ip, flags,
                                   flag_cache, wild >>
            /\ ( /\ Returned(ret, "SetReg") /\ OnReg(ret, rt, ri)
                 /\ ret.facet = f ) =>
                   /\ ret'.status = "ok"
                   /\ ret'.res = ret.val
                   /\ ret'.conv = << >> ]_vars

\* a value is written without clear_facets and read back under the same
\* facet
C5_Witness ==
    /\ Len(calls) >= 3
    /\ IsSetReg(Prev, FALSE)
    /\ Returned(ret, "GetReg") /\ SameReg(ret, Prev)
    /\ ret.facet = Prev.facet /\ ret.res = Prev.val /\ ret.res \in Values

\* C6: GetReg(R, F) on an empty slot of a register that holds a value under
\* another facet does not abort; when it returns, the result is the
\* conversion to F of a facet R holds, one conversion was requested and slot F
\* holds the result; a GetReg(R, F) right after returns the same value and
\* requests no conversion.
C6_CacheOnRead ==
    [][ \A rt \in Classes : \A ri \in RegIdx(rt) : \A f \in Supported(rt) :
            ( /\ ret'.op = "GetReg" /\ OnReg(ret', rt, ri)
              /\ ret'.facet = f ) =>
            /\ ( /\ Slot(rt, ri, f) = Null
                 /\ Populated(rt, Regs(rt)[ri]) # {} ) =>
                   /\ ret'.status \in {"ok", "error"}
                   /\ ret'.status = "ok" =>
                          /\ \E g \in Populated(rt, Regs(rt)[ri]) :
                                 /\ ret'.res =
                                        Convert(Slot(rt, ri, g), g, f)
                                 /\ ret'.conv = << << g, f >> >>
                          /\ SlotNext(rt, ri, f) = ret'.res
            /\ ( /\ Returned(ret, "GetReg") /\ OnReg(ret, rt, ri)
                 /\ ret.facet = f /\ ret.conv # << >> ) =>
                   /\ ret'.status = "ok"
                   /\ ret'.res = ret.res
                   /\ ret'.conv = << >> ]_vars

\* I64 is written with clear_facets, I32 is read and is the conversion of the
\* value from I64, and I32 is read again: the same value, no conversion
C6_Witness ==
    /\ Len(calls) = 4
    /\ IsSetReg(calls[2], TRUE) /\ calls[2].rt = "gp"
    /\ calls[2].facet = I64
    /\ Returned(calls[3], "GetReg") /\ SameReg(calls[3], calls[2])
    /\ calls[3].facet = I32
    /\ calls[3].res = Convert(calls[2].val, I64, I32)
    /\ calls[3].conv = << << I64, I32 >> >>
    /\ Returned(calls[4], "GetReg") /\ SameReg(calls[4], calls[2])
    /\ calls[4].facet = I32
    /\ calls[4].res = calls[3].res /\ calls[4].conv = << >>

\* C7: GetReg(R, F) on a register that holds a value under no facet aborts
\* and leaves every slot as it was.
C7_UnseededFatal ==
    [][ \A rt \in Classes : \A ri \in RegIdx(rt) : \A f \in Supported(rt) :
            ( /\ ret'.op = "GetReg" /\ OnReg(ret', rt, ri)
              /\ ret'.facet = f
              /\ Populated(rt, Regs(rt)[ri]) = {} ) =>
                /\ ret'.status = "abort"
                /\ Regs(rt)' = Regs(rt) ]_vars

\* C8: at(v) of a map for a facet v outside the class does not return: no
\* slot is read or written through it, in the map or outside.
C8_AtUnsupportedFatal ==
    (ret.op \in {"MapLoad", "MapStore"} /\ ret.facet \notin Supported(ret.rt))
        => (ret.status # "ok" /\ ~wild)

\* C9: no class has a slot for a pseudo-facet, and SetReg with a pseudo-facet
\* as target does not return and stores nothing.
C9_NoPseudoSlot ==
    /\ \A rt \in Classes : \A p \in PseudoFacets :
           table(rt).b[p] = 0 /\ p \notin Supported(rt)
    /\ (ret.op = "SetReg" /\ ret.facet \in PseudoFacets)
           => (ret.status # "ok" /\ ~wild)

\* the calls of update made so far, and the last of them
Updates == {i \in 1 .. Len(calls) : calls[i].op = "update"}
LastUpdate == calls[CHOOSE i \in Updates : \A j \in Updates : j <= i]

\* C10: the flag cache is valid exactly when update has been called, and
\* then holds the operands of the last update.
C10_FlagCacheLastUpdate ==
    IF Updates = {} THEN flag_cache.valid = FALSE
    ELSE /\ flag_cache.valid = TRUE
         /\ flag_cache.lhs = LastUpdate.val
         /\ flag_cache.rhs = LastUpdate.res

\* two updates, the second with two other operands than the first
C10_Witness ==
    /\ Cardinality(Updates) >= 2
    /\ \E i \in Updates :
           /\ calls[i].val # LastUpdate.val /\ calls[i].res # LastUpdate.res
           /\ LastUpdate.val # LastUpdate.res
    /\ flag_cache.lhs = LastUpdate.val /\ flag_cache.rhs = LastUpdate.res

\* C11: SetFlag(id, v) changes the slot of flag id alone: the slots of the
\* other flags and the flag cache (valid, lhs, rhs) are after the call what
\* they were before it, and a GetFlag(id) right after returns v.
C11_SetFlagFrame ==
    [][ \A id \in 0 .. (RFLAG_Max - 1) :
            /\ (ret'.op = "SetFlag" /\ ret'.ri = id) =>
                   /\ ret'.status = "ok"
                   /\ flags'[id] = ret'.val
                   /\ \A other \in (0 .. (RFLAG_Max - 1)) \ {id} :
                          flags'[other] = flags[other]
                   /\ flag_cache' = flag_cache
            /\ ( /\ ret.op = "SetFlag" /\ ret.ri = id
                 /\ ret'.op = "GetFlag" /\ ret'.ri = id ) =>
                   ret'.res = ret.val ]_vars

\* update records two operands, a flag is then written directly and read
\* back: the cache is still valid with the operands of the update, and a
\* flag written before holds what it held
C11_Witness ==
    /\ Len(calls) = 4
    /\ calls[2].op = "update"
    /\ calls[3].op = "SetFlag" /\ calls[3].ri = RFLAG_CF
    /\ calls[4].op = "GetFlag" /\ calls[4].ri = RFLAG_CF
    /\ calls[4].res = calls[3].val
    /\ flag_cache.valid
    /\ flag_cache.lhs = calls[2].val /\ flag_cache.rhs = calls[2].res
    /\ flags[RFLAG_CF] = calls[3].val
    /\ flags[RFLAG_ZF] = Uninit

\* C12: clear() of a map leaves every slot of the map empty, whatever the
\* slots held, and the table of the class is what it was built as: facets()
\* lists the facets of the class in their order.
C12_ClearEmpties ==
    (ret.op = "MapClear") =>
        /\ ret.status = "ok"
        /\ \A g \in Supported(ret.rt) : Load(ret.rt, Map(ret.rt), g) = Null
        /\ DOMAIN Map(ret.rt) = 0 .. (Size(ret.rt) - 1)
        /\ \A k \in 0 .. (Size(ret.rt) - 1) :
               /\ facets(ret.rt)[k] = FacetList(ret.rt)[k + 1]
               /\ at_index(ret.rt, facets(ret.rt)[k]) = k

\* the last facet of a class is stored into a map whose other slots no one
\* wrote, and the map is cleared
C12_Witness ==
    /\ Len(calls) = 3
    /\ calls[2].op = "MapStore" /\ calls[2].status = "ok"
    /\ calls[2].facet = FacetList(calls[2].rt)[Size(calls[2].rt)]
    /\ calls[3].op = "MapClear" /\ calls[3].rt = calls[2].rt
    /\ Load(calls[2].rt, Map(calls[2].rt), calls[2].facet) = Null

GpWidths == {8, 16, 32, 64}
\* c is a resolution of a width of the general purpose class
IsGpResolve(c) == c.op = "Resolve" /\ c.facet = I /\ c.bits \in GpWidths

\* C14: for the general purpose class Resolve maps 8, 16, 32 and 64 to I8,
\* I16, I32 and I64: the facet as wide as the width asked for, never a
\* pseudo-facet; two different widths give two different facets, the wider
\* width the wider facet; and resolving the width of the facet returned, on
\* the pseudo-facet or on the facet returned, gives that facet again.
C14_ResolveGp ==
    /\ IsGpResolve(ret) =>
           /\ ret.res \in {I8, I16, I32, I64}
           /\ ret.res \notin PseudoFacets
           /\ WidthOf(ret.res) = ret.bits
           /\ ret.res = (CASE ret.bits = 8 -> I8 [] ret.bits = 16 -> I16
                           [] ret.bits = 32 -> I32 [] OTHER -> I64)
           /\ Resolve(I, WidthOf(ret.res)) = ret.res
           /\ Resolve(ret.res, WidthOf(ret.res)) = ret.res
    /\ (Len(calls) >= 3 /\ IsGpResolve(Prev) /\ IsGpResolve(ret)) =>
           /\ Prev.bits # ret.bits => Prev.res # ret.res
           /\ Prev.bits < ret.bits => WidthOf(Prev.res) < WidthOf(ret.res)

\* 8 and then 64 are resolved for the general purpose class: I8 and I64
C14_Witness ==
    /\ Len(calls) = 3
    /\ IsGpResolve(Prev) /\ Prev.bits = 8 /\ Prev.res = I8
    /\ IsGpResolve(ret) /\ ret.bits = 64 /\ ret.res = I64

\* C15: when GetReg(R, F) finds slot F empty, takes a populated facet as the
\* source and the backend has no conversion of it, the call ends with an
\* error reported to the caller: it is not one of the fatal outcomes, the
\* register file is left as it was, slot F still empty, and further calls
\* are served; an error is reported in no other case, and a register with an
\* empty slot F and a populated facet never ends GetReg fatally.
C15_ConversionFailure ==
    [][ \A rt \in Classes : \A ri \in RegIdx(rt) : \A f \in Supported(rt) :
            ( /\ ret'.op = "GetReg" /\ OnReg(ret', rt, ri)
              /\ ret'.facet = f ) =>
            /\ ret'.status = "error" =>
                   /\ Slot(rt, ri, f) \in {Null, Uninit}
                   /\ \E g \in Populated(rt, Regs(rt)[ri]) :
                          ret'.src = g /\ ret'.conv = << << g, f >> >>
                   /\ ret'.res = Null
                   /\ SlotNext(rt, ri, f) = Slot(rt, ri, f)
                   /\ UNCHANGED << regs_gp, regs_sse, reg_ip, flags,
                                   flag_cache, wild >>
                   /\ Running'
            /\ ( /\ Slot(rt, ri, f) = Null
                 /\ Populated(rt, Regs(rt)[ri]) # {} ) =>
                   ret'.status \in {"ok", "error"}
            /\ ( /\ ret.op = "GetReg" /\ ret.status = "error"
                 /\ OnReg(ret, rt, ri) /\ ret.facet = f
                 /\ Slot(rt, ri, f) = Null ) =>
                   /\ ret'.status \in {"ok", "error"}
                   /\ ret'.conv = ret.conv ]_vars

\* I64 is written with clear_facets, the read of I32 fails in the backend,
\* and the read of I32 made again is served, by a conversion from I64
C15_Witness ==
    /\ Len(calls) = 4
    /\ IsSetReg(calls[2], TRUE) /\ calls[2].rt = "gp"
    /\ calls[2].facet = I64
    /\ calls[3].op = "GetReg" /\ SameReg(calls[3], calls[2])
    /\ calls[3].facet = I32 /\ calls[3].status = "error"
    /\ Returned(calls[4], "GetReg") /\ SameReg(calls[4], calls[2])
    /\ calls[4].facet = I32
    /\ calls[4].res = Convert(calls[2].val, I64, I32)

\* the populated facets of register ri that are of the kind of facet f
SameKind(rt, ri, f) ==
    {g \in Populated(rt, Regs(rt)[ri]) : KindOf(g) = KindOf(f)}

Listed(rt) == {FacetList(rt)[k] : k \in 1 .. Len(FacetList(rt))}

\* the table of each class maps the k-th facet of the class to k, every other
\* facet below MAX to 0, and lists the facets in the order of the class
TableMatchesList ==
    \A rt \in Classes :
        /\ \A v \in Facets : (table(rt).b[v] = 0) <=> (v \notin Listed(rt))
        /\ \A k \in 1 .. Size(rt) :
               /\ facets(rt)[k - 1] = FacetList(rt)[k]
               /\ table(rt).b[FacetList(rt)[k]] = k
               /\ at_index(rt, FacetList(rt)[k]) = k - 1
        /\ \A v \in Listed(rt), w \in Listed(rt) :
               v # w => at_index(rt, v) # at_index(rt, w)
        /\ {at_index(rt, v) : v \in Listed(rt)} = 0 .. (Size(rt) - 1)

\* C17: the table of a class maps its facets one to one onto the slots
\* 0 .. N-1, the k-th facet of the class to slot k-1, and every other facet
\* below MAX to 0 (no slot); facets() lists the facets in the order of the
\* class; a store through at(F) leaves the slot of every other facet G of the
\* class as it was.
C17_TableBijection ==
    [][ /\ TableMatchesList
        /\ \A rt \in Classes :
               ( /\ ret'.op = "MapStore" /\ ret'.status = "ok"
                 /\ ret'.rt = rt /\ ret'.facet \in Listed(rt) ) =>
                   \A g \in Listed(rt) :
                       Load(rt, Map(rt)', g) =
                           IF g = ret'.facet THEN ret'.val
                           ELSE Load(rt, Map(rt), g) ]_vars

\* two facets of a class are stored with two values, one after the other:
\* each slot holds its value
C17_Witness ==
    /\ Len(calls) = 3
    /\ calls[2].op = "MapStore" /\ calls[2].status = "ok"
    /\ calls[3].op = "MapStore" /\ calls[3].status = "ok"
    /\ calls[3].rt = calls[2].rt
    /\ calls[2].facet \in Listed(calls[2].rt)
    /\ calls[3].facet \in Listed(calls[2].rt)
    /\ calls[2].facet # calls[3].facet /\ calls[2].val # calls[3].val
    /\ Load(calls[2].rt, Map(calls[2].rt), calls[2].facet) = calls[2].val
    /\ Load(calls[2].rt, Map(calls[2].rt), calls[3].facet) = calls[3].val

\* register ri of class rt holds a value under some facet
Seeded(rt, ri) == Populated(rt, Regs(rt)[ri]) # {}

\* the call is made with a facet of the class of its register (a call with
\* any other facet is the case of C8 and C9)
InClass(c) == c.op = "Rename" \/ c.facet \in Supported(c.rt)

Stored(x) == x.id \in 1 .. MaxVal

\* C20: every slot of a register and every flag slot is empty or holds a
\* value a caller stored or the backend converted; before the first call
\* every slot of every register and every flag slot is empty and the flag
\* cache is not valid.
C20_SlotsEmptyOrStored ==
    /\ \A rt \in Classes : \A ri \in RegIdx(rt) : \A g \in Supported(rt) :
           Slot(rt, ri, g) = Null \/ Stored(Slot(rt, ri, g))
    /\ \A flag \in 0 .. (RFLAG_Max - 1) :
           flags[flag] = Null \/ Stored(flags[flag])
    /\ nops = 0 =>
           /\ \A rt \in Classes : \A ri \in RegIdx(rt) :
                  \A g \in Supported(rt) : Slot(rt, ri, g) = Null
           /\ \A flag \in 0 .. (RFLAG_Max - 1) : flags[flag] = Null
           /\ flag_cache.valid = FALSE

====
